---- MODULE Spec2Model ----
(***************************************************************************)
(* Model of the feature relevance interval orchestrator of fri:            *)
(* FRIBase.__init__ / fit / _main_opt (src/fri/fri.py) and                 *)
(* BaseProblem.solve (src/rbclassifier/optproblems.py), of the bound       *)
(* problems of optproblems.py on small data sets, and of the data          *)
(* generators of src/fri/genData.py.                                       *)
(*                                                                         *)
(* Floating point values are modelled as extended rationals <<n, d>>:      *)
(* d > 0 is the rational n/d in lowest terms, <<1,0>> is +inf,             *)
(* <<-1,0>> is -inf and <<0,0>> is NaN.  Arithmetic is exact.              *)
(***************************************************************************)
EXTENDS Integers, Sequences, FiniteSets, TLC

\* ------------------------------------------------------------------------
\* Bounds of the model
\* ------------------------------------------------------------------------
MaxD == 2
MaxResampling == 2
NWorkers == 2
RngPeriod == 5

\* ------------------------------------------------------------------------
\* Extended rational arithmetic (numpy float64 semantics, exact)
\* ------------------------------------------------------------------------
Abs(x) == IF x < 0 THEN -x ELSE x

RECURSIVE GCD(_, _)
GCD(a, b) == IF b = 0 THEN a ELSE GCD(b, a % b)

Sign(x) == IF x < 0 THEN -1 ELSE IF x > 0 THEN 1 ELSE 0

Norm(n, d) ==
    IF d = 0 THEN <<Sign(n), 0>>
    ELSE LET g == GCD(Abs(n), Abs(d))
             s == IF d < 0 THEN -1 ELSE 1
         IN  <<(s * n) \div g, (s * d) \div g>>

Zero == <<0, 1>>
One == <<1, 1>>
Two == <<2, 1>>
Inf == <<1, 0>>
NInf == <<-1, 0>>
NaN == <<0, 0>>

IsNaN(a) == a = NaN
IsInf(a) == a[2] = 0 /\ a[1] # 0
IsFinite(a) == a[2] # 0

Neg(a) == <<-a[1], a[2]>>

\* a + b
Add(a, b) ==
    IF IsNaN(a) \/ IsNaN(b) THEN NaN
    ELSE IF IsInf(a) THEN (IF IsInf(b) /\ b # a THEN NaN ELSE a)
    ELSE IF IsInf(b) THEN b
    ELSE Norm(a[1] * b[2] + b[1] * a[2], a[2] * b[2])

\* a - b
Sub(a, b) == Add(a, Neg(b))

\* a / b for a finite b # 0
Div(a, b) ==
    IF IsNaN(a) THEN NaN
    ELSE IF IsInf(a) THEN (IF b[1] < 0 THEN Neg(a) ELSE a)
    ELSE Norm(a[1] * b[2], a[2] * b[1])

\* a < b ; every comparison with NaN is False
Less(a, b) ==
    IF IsNaN(a) \/ IsNaN(b) THEN FALSE
    ELSE IF a = b THEN FALSE
    ELSE IF a = NInf \/ b = Inf THEN TRUE
    ELSE IF a = Inf \/ b = NInf THEN FALSE
    ELSE a[1] * b[2] < b[1] * a[2]

LessEq(a, b) == ~IsNaN(a) /\ ~IsNaN(b) /\ (a = b \/ Less(a, b))

AbsNum(a) == <<Abs(a[1]), a[2]>>

\* product of two finite values
Mul(a, b) == Norm(a[1] * b[1], a[2] * b[2])

MaxNum(a, b) == IF Less(a, b) THEN b ELSE a

RECURSIVE SumNum(_)
SumNum(seq) == IF seq = <<>> THEN Zero ELSE Add(Head(seq), SumNum(Tail(seq)))

RECURSIVE SumInt(_)
SumInt(seq) == IF seq = <<>> THEN 0 ELSE Head(seq) + SumInt(Tail(seq))

\* 1 * 10 ** -4, the rounding tolerance of _main_opt
Tolerance == <<1, 10000>>

\* ------------------------------------------------------------------------
\* Input data.  The data decides what the baseline fit and the convex
\* solver return: X.L1 is the L1 norm of the baseline weights, X.raw[di]
\* the optima of the two bound problems of feature di on the real data,
\* X.noise the optima on permuted columns, X.bad the problem (on feature
\* 0) that has no feasible point.
\* ------------------------------------------------------------------------
Profiles ==
    << [lo |-> Zero, up |-> One, b |-> Zero],
       [lo |-> One, up |-> One, b |-> One],
       [lo |-> <<-1, 100000>>, up |-> Two, b |-> <<-1, 1>>] >>

NoiseTables == {"quiet", "loud"}

BadTasks == {"none", "lower", "upper", "shadowlower", "shadowupper"}

L1Values == {Zero, Two}

Seeds == {0, 1}

Features(d) == 0 .. (d - 1)

Slots(d) == Features(d) \X {0, 1}

\* the features take the profiles in turn, starting at profile shift + 1
RawOptima(d, shift) ==
    [di \in Features(d) |-> Profiles[((di + shift) % Len(Profiles)) + 1]]

DataSets ==
    { [d |-> d, raw |-> RawOptima(d, shift), noise |-> noise, bad |-> bad,
       L1 |-> L1] :
          d \in 0 .. MaxD, shift \in 0 .. (Len(Profiles) - 1),
          noise \in NoiseTables, bad \in BadTasks, L1 \in L1Values }

Params ==
    [shadow_features : BOOLEAN, parallel : BOOLEAN,
     n_resampling : -1 .. MaxResampling, seed : Seeds]

\* numpy.zeros of the given shape
ZerosD2(d) == [s \in Slots(d) |-> Zero]
ZerosD(d) == [j \in Features(d) |-> Zero]
ZerosD2D(d) == [s \in Slots(d) |-> ZerosD(d)]

\* sklearn.utils.check_random_state(seed): a generator seeded with seed
check_random_state(seed) == seed % RngPeriod

\* ------------------------------------------------------------------------
\* Bound tasks
\* ------------------------------------------------------------------------
NewBound(di, type, isShadow, perm) ==
    [di |-> di, type |-> type, isShadow |-> isShadow, perm |-> perm,
     status |-> "unsolved", value |-> NaN, omega |-> <<>>, b |-> NaN]

\* LowerBound(di, ...) for di in range(d), then UpperBound(di, ...)
RealWork(d) ==
    [j \in 1 .. 2 * d |->
        NewBound((j - 1) % d, (j - 1) \div d, FALSE, 0)]

\* a loop over the resampling iterations that runs at least once
RangeLenAtLeastOnce(n) == IF n < 1 THEN 1 ELSE n

\* range(n_resampling) has max(n_resampling, 0) elements
RangeLen(n) == IF n < 0 THEN 0 ELSE n

\* the state of a generator in state rs after n permutations have been
\* drawn from it; the state decides the next permutation
AfterDraws(rs, n) == (rs + n) % RngPeriod

\* for nr in range(n_resampling): LowerBoundS(di) for di in range(d), then
\* UpperBoundS(di) for di in range(d); every shadow bound is handed
\* random_state and draws its permutation from it when it is constructed
ShadowWork(d, n_resampling, rs) ==
    [j \in 1 .. 2 * d * RangeLen(n_resampling) |->
        NewBound((j - 1) % d, ((j - 1) \div d) % 2, TRUE,
                 AfterDraws(rs, j - 1))]

CreateWork(d, shadow_features, n_resampling, rs) ==
    IF shadow_features
    THEN RealWork(d) \o ShadowWork(d, n_resampling, rs)
    ELSE RealWork(d)

\* the generator state after the work list has been built
StateAfterWork(d, shadow_features, n_resampling, rs) ==
    IF shadow_features
    THEN AfterDraws(rs, 2 * d * RangeLen(n_resampling))
    ELSE rs

\* ------------------------------------------------------------------------
\* Solving one bound problem
\* ------------------------------------------------------------------------
\* optimum of a bound problem on a permuted copy of column di
ShadowValue(table, di, type, perm) ==
    IF table = "quiet" THEN Zero
    ELSE IF type = 0 THEN Norm(perm % 2, 2)
    ELSE Norm((perm + di) % 3, 1)

\* the problem of this bound has no feasible point
Infeasible(X, bound) ==
    /\ bound.di = 0
    /\ \/ X.bad = "lower" /\ ~bound.isShadow /\ bound.type = 0
       \/ X.bad = "upper" /\ ~bound.isShadow /\ bound.type = 1
       \/ X.bad = "shadowlower" /\ bound.isShadow /\ bound.type = 0
       \/ X.bad = "shadowupper" /\ bound.isShadow /\ bound.type = 1

OptimalValue(X, bound) ==
    IF bound.isShadow
    THEN ShadowValue(X.noise, bound.di, bound.type, bound.perm)
    ELSE IF bound.type = 0 THEN X.raw[bound.di].lo ELSE X.raw[bound.di].up

\* bound.solve(): problem.solve() leaves the optimal value, omega and b in
\* the problem instance and returns the bound.  Without a feasible point
\* the value is +inf (minimisation) or -inf (maximisation) and the
\* variables have no value (None).
Solve(X, bound) ==
    IF Infeasible(X, bound)
    THEN [bound EXCEPT !.status = "infeasible",
                       !.value = IF bound.type = 0 THEN Inf ELSE NInf]
    ELSE LET v == OptimalValue(X, bound)
         IN  [bound EXCEPT !.status = "optimal",
                           !.value = v,
                           !.omega = [j \in Features(X.d) |->
                                        IF j = bound.di THEN v ELSE Zero],
                           !.b = X.raw[bound.di].b]

\* omega.value is None
OmegaIsNone(bound) == bound.status # "optimal"

\* ------------------------------------------------------------------------
\* _main_opt: the aggregation loop body and the final correction
\* ------------------------------------------------------------------------
\* the arrays of _main_opt right after their allocation
NewArrays(d) ==
    [rangevector |-> ZerosD2(d), shadowrangevector |-> ZerosD2(d),
     omegas |-> ZerosD2D(d), biase |-> ZerosD2(d), raised |-> FALSE]

\* the loop body with "=" in place of "+=" in the shadow branch
CollectOneOverwrite(acc, finished_bound, n_resampling) ==
    LET di == finished_bound.di
        i == finished_bound.type
    IN  IF ~finished_bound.isShadow
        THEN IF finished_bound.status # "optimal"
             THEN [acc EXCEPT !.rangevector[<<di, i>>] = finished_bound.value,
                              !.raised = TRUE]
             ELSE [acc EXCEPT !.rangevector[<<di, i>>] = finished_bound.value,
                              !.omegas[<<di, i>>] = finished_bound.omega,
                              !.biase[<<di, i>>] = finished_bound.b]
        ELSE [acc EXCEPT !.shadowrangevector[<<di, i>>] =
                  Div(finished_bound.value, <<n_resampling, 1>>)]

\* the loop body that adds a shadow value without the weight
\* 1 / n_resampling
CollectOneUnweighted(acc, finished_bound, n_resampling) ==
    LET di == finished_bound.di
        i == finished_bound.type
    IN  IF ~finished_bound.isShadow
        THEN IF finished_bound.status # "optimal"
             THEN [acc EXCEPT !.rangevector[<<di, i>>] = finished_bound.value,
                              !.raised = TRUE]
             ELSE [acc EXCEPT !.rangevector[<<di, i>>] = finished_bound.value,
                              !.omegas[<<di, i>>] = finished_bound.omega,
                              !.biase[<<di, i>>] = finished_bound.b]
        ELSE [acc EXCEPT !.shadowrangevector[<<di, i>>] =
                  Add(@, finished_bound.value)]

\* one iteration of "for finished_bound in done"
CollectOne(acc, finished_bound, n_resampling) ==
    LET di == finished_bound.di
        i == finished_bound.type
    IN  IF ~finished_bound.isShadow
        THEN IF OmegaIsNone(finished_bound)
             THEN [acc EXCEPT !.rangevector[<<di, i>>] = finished_bound.value,
                              !.raised = TRUE]
             ELSE [acc EXCEPT !.rangevector[<<di, i>>] = finished_bound.value,
                              !.omegas[<<di, i>>] = finished_bound.omega,
                              !.biase[<<di, i>>] = finished_bound.b]
        ELSE [acc EXCEPT !.shadowrangevector[<<di, i>>] =
                  Add(@, Div(finished_bound.value, <<n_resampling, 1>>))]

\* the shadow correction without the clamp
ShadowCorrectionNoClamp(rangevector, shadowrangevector) ==
    [s \in DOMAIN rangevector |->
        Sub(rangevector[s], shadowrangevector[s])]

\* rangevector -= shadowrangevector; rangevector[rangevector < 0] = 0
ShadowCorrection(rangevector, shadowrangevector) ==
    [s \in DOMAIN rangevector |->
        LET v == Sub(rangevector[s], shadowrangevector[s])
        IN  IF Less(v, Zero) THEN Zero ELSE v]

\* rangevector = rangevector / L1
ScaleToL1(rangevector, L1) ==
    [s \in DOMAIN rangevector |-> Div(rangevector[s], L1)]

\* rangevector[np.abs(rangevector) < 1 * 10 ** -4] = 0
RoundMins(rangevector) ==
    [s \in DOMAIN rangevector |->
        IF Less(AbsNum(rangevector[s]), Tolerance) THEN Zero
        ELSE rangevector[s]]

\* the final statements with the rounding done before the rescaling
FinalIntervalRoundFirst(rangevector, shadowrangevector, shadow_features, L1) ==
    LET corrected == IF shadow_features
                     THEN ShadowCorrection(rangevector, shadowrangevector)
                     ELSE rangevector
        rounded == RoundMins(corrected)
    IN  IF Less(Zero, L1) THEN ScaleToL1(rounded, L1) ELSE rounded

\* the statements of _main_opt after the loop, up to the returned interval
FinalInterval(rangevector, shadowrangevector, shadow_features, L1) ==
    LET corrected == IF shadow_features
                     THEN ShadowCorrection(rangevector, shadowrangevector)
                     ELSE rangevector
        scaled == IF Less(Zero, L1) THEN ScaleToL1(corrected, L1)
                  ELSE corrected
    IN  RoundMins(scaled)

NoResult ==
    [interval |-> <<>>, omegas |-> <<>>, bias |-> <<>>,
     shadow_interval |-> <<>>]

\* return rangevector, omegas, biase, shadowrangevector
ReturnValue(acc, shadow_features, L1) ==
    [interval |-> FinalInterval(acc.rangevector, acc.shadowrangevector,
                                shadow_features, L1),
     omegas |-> acc.omegas, bias |-> acc.biase,
     shadow_interval |-> acc.shadowrangevector]

\* ------------------------------------------------------------------------
\* State
\* ------------------------------------------------------------------------
VARIABLES
    params,             \* constructor arguments kept by FRIBase.__init__
    random_state,       \* self.random_state, the generator of the estimator
    X,                  \* the data handed to fit
    pc,                 \* position of the caller inside fit / _main_opt
    work,               \* the work list of _main_opt
    done,               \* the finished bounds, as far as they exist
    order,              \* order in which the loop receives the bounds
    k,                  \* number of finished bounds the loop has consumed
    rangevector, shadowrangevector, omegas, biase,
    unmod_interval_,    \* self.unmod_interval_
    result,             \* what _main_opt returned
    error,              \* exception that left fit, if any
    rs0,                \* generator state when the current fit began
    run,                \* number of the current fit call
    kind,               \* how the current fit call came about
    prev,               \* outcome of the previous fit call
    prob_instance,      \* a bound problem of optproblems.py being solved
    gen                 \* a call of a data generator or of the factory

vars ==
    <<params, random_state, X, pc, work, done, order, k,
      rangevector, shadowrangevector, omegas, biase, unmod_interval_,
      result, error, rs0, run, kind, prev, prob_instance, gen>>

arrayVars == <<rangevector, shadowrangevector, omegas, biase>>
sessionVars == <<run, kind, prev>>
toolVars == <<prob_instance, gen>>

\* no bound problem has been built, no function has been called
NotInUse == [status |-> "unused"]

Arrays ==
    [rangevector |-> rangevector, shadowrangevector |-> shadowrangevector,
     omegas |-> omegas, biase |-> biase, raised |-> FALSE]

IdentityOrder(n) == [j \in 1 .. n |-> j]

Unsolved(bound) == bound.status = "unsolved"

NoPrev ==
    [set |-> FALSE, pc |-> "idle", result |-> NoResult, error |-> "",
     params |-> [shadow_features |-> FALSE, parallel |-> FALSE,
                 n_resampling |-> 0, seed |-> 0],
     rs0 |-> 0]

\* the estimator's part of the state right after FRIBase.__init__
EstimatorConstructed(p, data) ==
    /\ params = p
    /\ X = data
    /\ random_state = check_random_state(p.seed)
    /\ pc = "idle"
    /\ work = <<>> /\ done = <<>> /\ order = <<>>
    /\ k = 0
    /\ rangevector = <<>> /\ shadowrangevector = <<>>
    /\ omegas = <<>> /\ biase = <<>>
    /\ unmod_interval_ = <<>>
    /\ result = NoResult /\ error = ""
    /\ rs0 = 0 /\ run = 1 /\ kind = "first" /\ prev = NoPrev

\* the state right after FRIBase.__init__
Constructed(p, data) ==
    /\ EstimatorConstructed(p, data)
    /\ prob_instance = NotInUse /\ gen = NotInUse

Init == \E p \in Params, data \in DataSets : Constructed(p, data)

\* ------------------------------------------------------------------------
\* fit
\* ------------------------------------------------------------------------
\* fit up to the call of _main_opt: check_X_y rejects a matrix without
\* features, _initEstimator fits the baseline model (L1 = X.L1)
Fit ==
    /\ pc = "idle"
    /\ IF X.d = 0
       THEN /\ pc' = "raised"
            /\ error' = "ValueError"
            /\ UNCHANGED rs0
       ELSE /\ pc' = "main_opt"
            /\ error' = ""
            /\ rs0' = random_state
    /\ result' = NoResult
    /\ UNCHANGED <<params, random_state, X, work, done, order, k,
                   unmod_interval_>>
    /\ UNCHANGED <<arrayVars, sessionVars, toolVars>>

\* _main_opt: allocate the arrays and create the tasks
CreateTasks ==
    /\ pc = "main_opt"
    /\ rangevector' = ZerosD2(X.d)
    /\ shadowrangevector' = ZerosD2(X.d)
    /\ omegas' = ZerosD2D(X.d)
    /\ biase' = ZerosD2(X.d)
    /\ work' = CreateWork(X.d, params.shadow_features, params.n_resampling,
                          random_state)
    /\ random_state' = StateAfterWork(X.d, params.shadow_features,
                                      params.n_resampling, random_state)
    /\ done' = work'
    /\ order' = IdentityOrder(Len(work'))
    /\ k' = 0
    /\ pc' = "dispatch"
    /\ UNCHANGED <<params, X, unmod_interval_, result, error, rs0>>
    /\ UNCHANGED <<sessionVars, toolVars>>

\* done = newmap(self._opt_per_thread, work): map is lazy and returns at
\* once, pmap hands the work list to a pool and waits for it
Dispatch ==
    /\ pc = "dispatch"
    /\ pc' = IF params.parallel THEN "pool" ELSE "loop"
    /\ UNCHANGED <<params, random_state, X, work, done, order, k, result,
                   unmod_interval_, error, rs0>>
    /\ UNCHANGED <<arrayVars, sessionVars, toolVars>>

\* the workers take the tasks in list order, so a task is with a worker
\* when fewer than NWorkers unsolved tasks precede it
WithWorker(d, i) ==
    /\ Unsolved(d[i])
    /\ Cardinality({j \in 1 .. (i - 1) : Unsolved(d[j])}) < NWorkers

\* a worker that draws the permutation itself, from its copy of the
\* generator, instead of using the one drawn when the task was created
PoolSolveOwnDraw ==
    /\ pc = "pool"
    /\ \E i \in 1 .. Len(done) :
          /\ WithWorker(done, i)
          /\ done' = [done EXCEPT ![i] =
                         Solve(X, [work[i] EXCEPT !.perm = random_state])]
    /\ UNCHANGED <<params, random_state, X, pc, work, order, k,
                   result, unmod_interval_, error, rs0>>
    /\ UNCHANGED <<arrayVars, sessionVars, toolVars>>

\* a worker solves its copy of a task and sends the solved copy back
PoolSolve ==
    /\ pc = "pool"
    /\ \E i \in 1 .. Len(done) :
          /\ WithWorker(done, i)
          /\ done' = [done EXCEPT ![i] = Solve(X, work[i])]
    /\ UNCHANGED <<params, random_state, X, pc, work, order, k,
                   result, unmod_interval_, error, rs0>>
    /\ UNCHANGED <<arrayVars, sessionVars, toolVars>>

\* p.map returns once every task of the list has been solved
PoolMapComplete(d) == \A i \in 1 .. Len(d) : ~Unsolved(d[i])

\* a pool that hands back its results as soon as the first one exists
PoolReturnEarly ==
    /\ pc = "pool"
    /\ ~Unsolved(done[1])
    /\ pc' = "loop"
    /\ UNCHANGED <<params, random_state, X, work, done, order, k, result,
                   unmod_interval_, error, rs0>>
    /\ UNCHANGED <<arrayVars, sessionVars, toolVars>>

PoolReturn ==
    /\ pc = "pool"
    /\ PoolMapComplete(done)
    /\ pc' = "loop"
    /\ UNCHANGED <<params, random_state, X, work, done, order, k, result,
                   unmod_interval_, error, rs0>>
    /\ UNCHANGED <<arrayVars, sessionVars, toolVars>>

\* a shadow bound that permutes its column of the shared X in place when
\* it is solved, so that later tasks read the permuted data
SeqSolveInPlace ==
    /\ pc = "loop"
    /\ ~params.parallel
    /\ k < Len(done)
    /\ Unsolved(done[order[k + 1]])
    /\ done' = [done EXCEPT ![order[k + 1]] = Solve(X, work[order[k + 1]])]
    /\ work' = [work EXCEPT ![order[k + 1]] = Solve(X, work[order[k + 1]])]
    /\ X' = IF work[order[k + 1]].isShadow
            THEN [X EXCEPT !.noise = "quiet"]
            ELSE X
    /\ UNCHANGED <<params, random_state, pc, order, k, result,
                   unmod_interval_, error, rs0>>
    /\ UNCHANGED <<arrayVars, sessionVars, toolVars>>

\* sequential map: the loop asks for the next element, which solves it;
\* the bound of the work list is solved in place
SeqSolve ==
    /\ pc = "loop"
    /\ ~params.parallel
    /\ k < Len(done)
    /\ Unsolved(done[order[k + 1]])
    /\ done' = [done EXCEPT ![order[k + 1]] = Solve(X, work[order[k + 1]])]
    /\ work' = [work EXCEPT ![order[k + 1]] = Solve(X, work[order[k + 1]])]
    /\ UNCHANGED <<params, random_state, X, pc, order, k, result,
                   unmod_interval_, error, rs0>>
    /\ UNCHANGED <<arrayVars, sessionVars, toolVars>>

\* the loop body for the next finished bound
Collect ==
    /\ pc = "loop"
    /\ k < Len(done)
    /\ ~Unsolved(done[order[k + 1]])
    /\ LET acc == CollectOne(Arrays, done[order[k + 1]], params.n_resampling)
       IN  /\ rangevector' = acc.rangevector
           /\ shadowrangevector' = acc.shadowrangevector
           /\ omegas' = acc.omegas
           /\ biase' = acc.biase
           /\ IF acc.raised
              THEN pc' = "raised" /\ error' = "AttributeError" /\ k' = k
              ELSE pc' = pc /\ error' = error /\ k' = k + 1
    /\ UNCHANGED <<params, random_state, X, work, done, order, result,
                   unmod_interval_, rs0>>
    /\ UNCHANGED <<sessionVars, toolVars>>

\* the statements after the loop; fit keeps the returned arrays
Return ==
    /\ pc = "loop"
    /\ k = Len(done)
    /\ unmod_interval_' = rangevector
    /\ result' = ReturnValue(Arrays, params.shadow_features, X.L1)
    /\ pc' = "returned"
    /\ UNCHANGED <<params, random_state, X, work, done, order, k, error, rs0>>
    /\ UNCHANGED <<arrayVars, sessionVars, toolVars>>

Next ==
    \/ Fit
    \/ CreateTasks
    \/ Dispatch
    \/ PoolSolve
    \/ PoolReturn
    \/ SeqSolve
    \/ Collect
    \/ Return

Spec == Init /\ [][Next]_vars

\* ------------------------------------------------------------------------
\* Two fit calls in a row: the same estimator fitted again, or a second
\* estimator constructed from a seed and fitted on the same data
\* ------------------------------------------------------------------------
Ended == pc \in {"returned", "raised"}

Snapshot ==
    [set |-> TRUE, pc |-> pc, result |-> result, error |-> error,
     params |-> params, rs0 |-> rs0]

\* fit is called once more on the estimator; __init__ does not run again,
\* so self.random_state is the generator the first call left behind
Refit ==
    /\ Ended
    /\ run = 1
    /\ prev' = Snapshot
    /\ run' = run + 1
    /\ kind' = "refit"
    /\ pc' = "idle"
    /\ UNCHANGED <<params, random_state, X, work, done, order, k, result,
                   unmod_interval_, error, rs0>>
    /\ UNCHANGED <<arrayVars, toolVars>>

\* FRIBase.__init__ of a second estimator: the same shadow_features and
\* n_resampling, any seed and any dispatch mode
Construct ==
    /\ Ended
    /\ run = 1
    /\ \E par \in BOOLEAN, seed \in Seeds :
          /\ params' = [params EXCEPT !.parallel = par, !.seed = seed]
          /\ random_state' = check_random_state(seed)
    /\ prev' = Snapshot
    /\ run' = run + 1
    /\ kind' = "new"
    /\ pc' = "idle"
    /\ UNCHANGED <<X, work, done, order, k, result, unmod_interval_, error,
                   rs0>>
    /\ UNCHANGED <<arrayVars, toolVars>>

SessionDataSets ==
    {data \in DataSets : data.d > 0 /\ data.L1 = Two
                         /\ data.bad \in {"none", "lower"}}

InitSession == \E p \in Params, data \in SessionDataSets : Constructed(p, data)

NextSession == Next \/ Refit \/ Construct

SpecSession == InitSession /\ [][NextSession]_vars

\* ------------------------------------------------------------------------
\* The aggregation loop fed with the finished bounds in another order
\* ------------------------------------------------------------------------
Reverse(n) == [j \in 1 .. n |-> n + 1 - j]
Rotate(n, r) == [j \in 1 .. n |-> ((j - 1 + r) % n) + 1]
SwapNext(n, i) ==
    [j \in 1 .. n |-> IF j = i THEN i + 1 ELSE IF j = i + 1 THEN i ELSE j]

Orders(n) ==
    {Reverse(n)} \cup {Rotate(n, r) : r \in 0 .. (n - 1)}
                 \cup {SwapNext(n, i) : i \in 1 .. (n - 1)}

SolveAll(data, w) == [j \in 1 .. Len(w) |-> Solve(data, w[j])]

\* the state in which the loop starts after p.map has returned
LoopStart(p, data, ord) ==
    LET w == CreateWork(data.d, p.shadow_features, p.n_resampling,
                        check_random_state(p.seed))
    IN  /\ params = p
        /\ X = data
        /\ random_state = StateAfterWork(data.d, p.shadow_features,
                                         p.n_resampling,
                                         check_random_state(p.seed))
        /\ pc = "loop"
        /\ work = w
        /\ done = SolveAll(data, w)
        /\ order = ord
        /\ k = 0
        /\ rangevector = ZerosD2(data.d)
        /\ shadowrangevector = ZerosD2(data.d)
        /\ omegas = ZerosD2D(data.d)
        /\ biase = ZerosD2(data.d)
        /\ unmod_interval_ = <<>>
        /\ result = NoResult /\ error = ""
        /\ rs0 = check_random_state(p.seed)
        /\ run = 1 /\ kind = "first" /\ prev = NoPrev
        /\ prob_instance = NotInUse /\ gen = NotInUse

OrderDataSets ==
    {data \in DataSets : data.d > 0 /\ data.L1 = Two /\ data.noise = "loud"}

InitOrder ==
    \E p \in Params, data \in OrderDataSets :
       /\ p.parallel /\ p.seed = 0
       /\ \E ord \in Orders(Len(CreateWork(data.d, p.shadow_features,
                                           p.n_resampling,
                                           check_random_state(p.seed)))) :
             LoopStart(p, data, ord)

NextOrder == Collect \/ Return

SpecOrder == InitOrder /\ [][NextOrder]_vars

\* the whole loop over the finished bounds d taken in the order ord,
\* from the j-th on; the loop stops when an iteration raises
RECURSIVE CollectAll(_, _, _, _, _)
CollectAll(acc, d, ord, j, n_resampling) ==
    IF j > Len(d) \/ acc.raised THEN acc
    ELSE CollectAll(CollectOne(acc, d[ord[j]], n_resampling), d, ord, j + 1,
                    n_resampling)

\* ------------------------------------------------------------------------
\* Properties
\* ------------------------------------------------------------------------
Slot(bound) == <<bound.di, bound.type>>

\* _main_opt has built its work list in the current call
WorkBuilt ==
    \/ pc \in {"dispatch", "pool", "loop", "returned"}
    \/ pc = "raised" /\ error = "AttributeError"

\* the loop has written a task result into the result arrays
Written ==
    /\ pc \in {"loop", "returned", "raised"}
    /\ k > 0 \/ error = "AttributeError"

AllSolved == \A i \in 1 .. Len(done) : ~Unsolved(done[i])

\* C1: in the returned matrix the lower bound of every feature is not
\* greater than its upper bound.
LowerNotAboveUpper ==
    pc = "returned" =>
        \A di \in Features(X.d) :
            LessEq(result.interval[<<di, 0>>], result.interval[<<di, 1>>])

\* the outcome of the loop and the final steps for the finished bounds d
\* received in the order ord
MainOptOutcome(d, ord) ==
    LET acc == CollectAll(NewArrays(X.d), d, ord, 1, params.n_resampling)
    IN  [raised |-> acc.raised,
         result |-> IF acc.raised THEN NoResult
                    ELSE ReturnValue(acc, params.shadow_features, X.L1)]

\* C2: whatever the order in which the finished bounds reach the loop,
\* _main_opt ends as it does for the submission order: it returns the same
\* interval, omegas, bias and shadow_interval, or raises in both cases.
OrderIndependentReduction ==
    Ended =>
        LET ref == MainOptOutcome(done, IdentityOrder(Len(done)))
        IN  /\ (pc = "raised") = ref.raised
            /\ pc = "returned" => result = ref.result

\* C2 witness: a run that returned after taking the bounds in another order
\* than the submission order, with several shadow results per slot
OrderWitness ==
    /\ pc = "returned"
    /\ order # IdentityOrder(Len(order))
    /\ params.shadow_features
    /\ params.n_resampling >= 2
    /\ \E s \in Slots(X.d) : result.shadow_interval[s] # Zero

\* C3 as stated: in both modes nothing is written before every task of the
\* batch is solved.
NoWriteBeforeBatchDone == Written => AllSolved

\* C3 amended: with the worker pool nothing is written before every task of
\* the batch is solved; with the sequential map the tasks are solved one by
\* one by the loop itself, so exactly the bounds the loop has asked for are
\* solved (the consumed ones and at most the next one).
BarrierOnlyInPool ==
    /\ (params.parallel /\ Written) => AllSolved
    /\ (~params.parallel /\ pc = "loop") =>
          /\ \A j \in 1 .. k : ~Unsolved(done[order[j]])
          /\ \A j \in (k + 2) .. Len(done) : Unsolved(done[order[j]])

\* C3 witness: the pool run is in the middle of the loop
BarrierWitness ==
    /\ params.parallel
    /\ pc = "loop"
    /\ k > 0
    /\ k < Len(done)

\* C4: an infeasible task never aborts the batch, and in the returned
\* arrays every feasible real task's slot holds that task's own result.
InfeasibleTaskDoesNotAbort ==
    /\ (\E i \in 1 .. Len(done) : done[i].status = "infeasible")
          => ~(pc = "raised" /\ error = "AttributeError")
    /\ pc = "returned" =>
          \A i \in 1 .. Len(done) :
             (~done[i].isShadow /\ done[i].status = "optimal") =>
                 /\ unmod_interval_[Slot(done[i])] = done[i].value
                 /\ result.omegas[Slot(done[i])] = done[i].omega
                 /\ result.bias[Slot(done[i])] = done[i].b

\* C5: once the call has ended, the slot of an infeasible task has been
\* returned and holds an invalid marker (NaN or an infinity), not a number.
InfeasibleSlotMarked ==
    \A i \in 1 .. Len(done) :
       (WorkBuilt /\ Ended /\ done[i].status = "infeasible") =>
           /\ pc = "returned"
           /\ ~IsFinite(IF done[i].isShadow
                        THEN result.shadow_interval[Slot(done[i])]
                        ELSE result.interval[Slot(done[i])])

InvalidConfiguration ==
    \/ params.shadow_features /\ params.n_resampling <= 0
    \/ X.d = 0

\* C6: for an invalid configuration no bound task is created or solved; the
\* call ends with an error.
InvalidConfigurationRejected ==
    InvalidConfiguration =>
        /\ Len(work) = 0
        /\ Ended => pc = "raised"

CountTasks(di, type, isShadow) ==
    Cardinality({j \in 1 .. Len(work) :
                    /\ work[j].di = di
                    /\ work[j].type = type
                    /\ work[j].isShadow = isShadow})

\* C7: the work list holds one lower and one upper task per feature and,
\* with shadow_features, n_resampling shadow lower and shadow upper tasks
\* per feature: 2*d*(1+n_resampling) tasks, 2*d without shadow_features.
WorkListComplete ==
    WorkBuilt =>
        /\ \A s \in Slots(X.d) : CountTasks(s[1], s[2], FALSE) = 1
        /\ Len(work) = IF params.shadow_features
                       THEN 2 * X.d * (1 + params.n_resampling)
                       ELSE 2 * X.d
        /\ params.shadow_features =>
              \A s \in Slots(X.d) :
                 CountTasks(s[1], s[2], TRUE) = params.n_resampling

\* C8: with shadow_features every entry of the returned interval is >= 0.
NonNegativeAfterClamp ==
    (pc = "returned" /\ params.shadow_features) =>
        \A s \in Slots(X.d) : LessEq(Zero, result.interval[s])

\* C8 witness: a returned run in which the clamp replaced a negative
\* difference
ClampWitness ==
    /\ pc = "returned"
    /\ params.shadow_features
    /\ \E s \in Slots(X.d) :
          Less(Sub(unmod_interval_[s], result.shadow_interval[s]), Zero)

\* the current fit call ended as the previous one did
SameOutcome ==
    /\ pc = prev.pc
    /\ error = prev.error
    /\ result = prev.result

\* C9: fitting the same estimator a second time on the same data with
\* parallel=False gives the results of the first fit.
RefitIdentical ==
    (kind = "refit" /\ Ended /\ ~params.parallel) => SameOutcome

\* C10: two estimators constructed from the same seed and fitted on the
\* same data, one with the sequential map and one with the worker pool,
\* end with the same results.
ParallelMatchesSequential ==
    (/\ kind = "new"
     /\ Ended
     /\ params.seed = prev.params.seed
     /\ params.parallel # prev.params.parallel) => SameOutcome

\* C10 witness: the second estimator used the other dispatch mode and the
\* same seed, and returned a shadow interval that is not zero
ModeWitness ==
    /\ kind = "new"
    /\ pc = "returned"
    /\ params.seed = prev.params.seed
    /\ params.parallel # prev.params.parallel
    /\ params.shadow_features
    /\ \E s \in Slots(X.d) : result.shadow_interval[s] # Zero

\* one fit call on data whose shadow problems have non-zero optima
InitTasks == \E p \in Params, data \in OrderDataSets : Constructed(p, data)

SpecTasks == InitTasks /\ [][Next]_vars

\* the work list as _main_opt built it in the current call
Submitted ==
    CreateWork(X.d, params.shadow_features, params.n_resampling, rs0)

\* C11: the tasks are independent of each other: solving a task leaves the
\* data and every other task as they were submitted, so the result of a
\* task is the solution of the task as submitted on the data as handed to
\* fit, whichever tasks were solved before it.
TasksIndependent ==
    WorkBuilt =>
        LET submitted == Submitted
        IN  /\ Len(done) = Len(submitted)
            /\ \A i \in 1 .. Len(done) :
                  IF Unsolved(done[i])
                  THEN done[i] = submitted[i] /\ work[i] = submitted[i]
                  ELSE done[i] = Solve(X, submitted[i])

\* C11 witness: the sequential map has solved a shadow task with a
\* non-zero optimum after other tasks, and further tasks are still to be
\* solved
IndependenceWitness ==
    /\ pc = "loop"
    /\ ~params.parallel
    /\ \E i, j, l \in 1 .. Len(done) :
          /\ i < j /\ j < l
          /\ ~Unsolved(done[i])
          /\ ~Unsolved(done[j]) /\ done[j].isShadow
          /\ done[j].value # Zero
          /\ Unsolved(done[l])

\* the interval before the rescaling step
Corrected ==
    IF params.shadow_features
    THEN ShadowCorrection(unmod_interval_, result.shadow_interval)
    ELSE unmod_interval_

\* C12: when the baseline L1 norm is 0, the returned interval holds the
\* shadow-corrected values without a division by L1 and has no NaN and no
\* infinite entry.
ZeroL1NoNaNInf ==
    (pc = "returned" /\ X.L1 = Zero) =>
        /\ result.interval = RoundMins(Corrected)
        /\ \A s \in Slots(X.d) : IsFinite(result.interval[s])

GridDen == 8

Grid == -GridDen .. GridDen
BiasGrid == {-(GridDen \div 2), 0, GridDen \div 2}

\* the value of n grid units
U(n) == Norm(n, GridDen)

Scenarios == {"separable", "twoMiss", "weakCopy"}

\* data sets with the baseline model that LinearSVC fits on them
FittedScenarios == {"fitMiss", "fitStrong"}

\* the rows of X
ScenarioX(scen) ==
    CASE scen = "separable" ->
            << <<1, 0>>, <<2, 0>>, <<-1, 0>>, <<-2, 0>> >>
      [] scen = "twoMiss" ->
            << <<1, 0>>, <<2, 0>>, <<-1, 0>>, <<-2, 0>>, <<1, 0>>, <<-1, 0>> >>
      [] scen = "weakCopy" ->
            << <<2, 1>>, <<-2, -1>> >>
      [] scen = "fitMiss" ->
            << <<1, 0>>, <<2, 0>>, <<-1, 0>>, <<-2, 0>>, <<1, 0>>, <<-1, 0>> >>
      [] scen = "fitStrong" ->
            << <<1, 0>>, <<-1, 0>> >>

ScenarioY(scen) ==
    CASE scen = "separable" -> <<1, 1, -1, -1>>
      [] scen = "twoMiss" -> <<1, 1, -1, -1, -1, 1>>
      [] scen = "weakCopy" -> <<1, -1>>
      [] scen = "fitMiss" -> <<1, 1, -1, -1, -1, 1>>
      [] scen = "fitStrong" -> <<1, -1>>

\* the fitted baseline model: coef_[0], -intercept_[0] and the C it was
\* fitted with
BaselineCoef(scen) ==
    CASE scen = "separable" -> <<One, Zero>>
      [] scen = "twoMiss" -> << <<1, 2>>, Zero >>
      [] scen = "weakCopy" -> << <<1, 4>>, Zero >>
      [] scen = "fitMiss" -> << <<1, 4>>, Zero >>
      [] scen = "fitStrong" -> << <<3, 4>>, Zero >>

BaselineBias(scen) == Zero

HyperC(scen) ==
    CASE scen = "fitMiss" -> <<1, 8>>
      [] scen = "fitStrong" -> <<3, 4>>
      [] OTHER -> One

Samples(scen) == 1 .. Len(ScenarioX(scen))

\* _svm_L1 = np.linalg.norm(_svm_coef[0], ord=1)
svm_L1(scen) ==
    Add(AbsNum(BaselineCoef(scen)[1]), AbsNum(BaselineCoef(scen)[2]))

\* best_clf.decision_function(X) for sample i
Prediction(scen, i) ==
    LET x == ScenarioX(scen)[i]
        coef == BaselineCoef(scen)
    IN  Sub(Add(Mul(<<x[1], 1>>, coef[1]), Mul(<<x[2], 1>>, coef[2])),
            BaselineBias(scen))

\* the hinge slack of the baseline model on sample i
BaselineSlack(scen, i) ==
    LET v == Sub(One, Mul(<<ScenarioY(scen)[i], 1>>, Prediction(scen, i)))
    IN  IF Less(v, Zero) THEN Zero ELSE v

\* _svm_loss = np.sum(np.maximum(0, 1 - Y_vector * prediction))
svm_loss(scen) ==
    SumNum([i \in Samples(scen) |-> BaselineSlack(scen, i)])

\* a big-M constant of 4 * L1
BigMLoose(scen) == Mul(<<4, 1>>, svm_L1(scen))

\* self.M = 2 * L1
BigM(scen) == Mul(Two, svm_L1(scen))

\* a value of the solver variables omega, b and xp[di], in grid units
GridPoints == [omega : Grid \X Grid, b : BiasGrid, xp : 0 .. GridDen]

\* the smallest eps[i] >= 0 with Y[i] * (X[i] * omega - b) >= 1 - eps[i],
\* in grid units
Eps(scen, pt, i) ==
    LET x == ScenarioX(scen)[i]
        margin == ScenarioY(scen)[i]
                    * (x[1] * pt.omega[1] + x[2] * pt.omega[2] - pt.b)
    IN  IF GridDen - margin < 0 THEN 0 ELSE GridDen - margin

\* cvx.norm(omega, 1), in grid units
WeightNorm(pt) == Abs(pt.omega[1]) + Abs(pt.omega[2])

\* the sum of the slacks eps, in grid units
SlackSum(scen, pt) == SumInt([i \in Samples(scen) |-> Eps(scen, pt, i)])

\* cvx.sum_squares(eps), in units of 1 / GridDen^2
SlackSquares(scen, pt) ==
    SumInt([i \in Samples(scen) |-> Eps(scen, pt, i) * Eps(scen, pt, i)])

\* the budget constraint without the allowance C * svmloss
CommonConstraintsNoLoss(scen, pt) ==
    LessEq(Add(U(WeightNorm(pt)),
               Mul(HyperC(scen),
                   Norm(SlackSquares(scen, pt), GridDen * GridDen))),
           svm_L1(scen))

\* the constraints of BaseClassificationProblem: margin and eps >= 0 hold
\* by the choice of eps; norm(omega, 1) + C * sum_squares(eps)
\* <= L1 + C * svmloss
CommonConstraints(scen, pt) ==
    LessEq(Add(U(WeightNorm(pt)),
               Mul(HyperC(scen),
                   Norm(SlackSquares(scen, pt), GridDen * GridDen))),
           Add(svm_L1(scen), Mul(HyperC(scen), svm_loss(scen))))

ProblemKinds == {"MinProblemClassification", "MaxProblem1", "MaxProblem2"}

\* the constraints a problem class adds for xp[di]; xp[j] >= abs(omega[j])
\* for the other features j can always be met
OwnConstraints(problemKind, scen, di, pt) ==
    LET w == pt.omega[di + 1]
    IN  CASE problemKind = "MinProblemClassification" ->
                Abs(w) <= pt.xp
          [] problemKind = "MaxProblem1" ->
                /\ Abs(w) <= pt.xp
                /\ pt.xp <= w
                /\ LessEq(U(pt.xp), Add(U(-w), BigM(scen)))
          [] problemKind = "MaxProblem2" ->
                /\ Abs(w) <= pt.xp
                /\ pt.xp <= -w
                /\ LessEq(U(pt.xp), Add(U(w), BigM(scen)))

FeasiblePoints(problemKind, scen, di) ==
    {pt \in GridPoints : /\ OwnConstraints(problemKind, scen, di, pt)
                         /\ CommonConstraints(scen, pt)}

\* cvx.Minimize(xp[di]) or cvx.Maximize(xp[di])
Minimizes(problemKind) == problemKind = "MinProblemClassification"

OptimalPoints(problemKind, scen, di) ==
    LET F == FeasiblePoints(problemKind, scen, di)
        values == {pt.xp : pt \in F}
        best == CHOOSE v \in values :
                    \A other \in values :
                        IF Minimizes(problemKind) THEN v <= other
                        ELSE v >= other
    IN  IF F = {} THEN {} ELSE {pt \in F : pt.xp = best}

NoPoint == [omega |-> <<0, 0>>, b |-> 0, xp |-> 0]

NotSolved == [status |-> "unsolved", value |-> NaN, point |-> NoPoint]

\* what problem.solve() can leave in a problem instance: an optimal point
\* with problem.value = xp[di], or no point and the value +inf / -inf
Solutions(problemKind, scen, di) ==
    LET O == OptimalPoints(problemKind, scen, di)
    IN  IF O = {}
        THEN {[status |-> "infeasible",
               value |-> IF Minimizes(problemKind) THEN Inf ELSE NInf,
               point |-> NoPoint]}
        ELSE {[status |-> "optimal", value |-> U(pt.xp), point |-> pt] :
                 pt \in O}

\* BaseRegressionProblem: self._constraints = [ ]
BaseRegressionConstraints == {}

\* epsilon=0.1, the default of BaseRegressionProblem.__init__
Epsilon == <<1, 10>>

\* a value of omega, b and the slack variables of a regression problem;
\* every sample has the same posSlack and negSlack
RegressionPoints ==
    [omega : Grid \X Grid, b : BiasGrid, posSlack : {0, GridDen},
     negSlack : {0}]

\* Y[i] - X[i] * omega + b
Residual(scen, pt, i) ==
    LET x == ScenarioX(scen)[i]
    IN  Sub(<<ScenarioY(scen)[i], 1>>,
            U(x[1] * pt.omega[1] + x[2] * pt.omega[2] - pt.b))

\* the epsilon tube with two-sided slack around sample i
EpsilonTube(scen, pt, i) ==
    LessEq(AbsNum(Residual(scen, pt, i)),
           Add(Epsilon, U(pt.posSlack - pt.negSlack)))

\* _svm_loss = np.sum(np.abs(Y - prediction)) of FRIRegression
svr_loss(scen) ==
    SumNum([i \in Samples(scen) |->
               AbsNum(Sub(<<ScenarioY(scen)[i], 1>>, Prediction(scen, i)))])

\* the budget with the absolute slack sum
RegressionBudget(scen, pt) ==
    LessEq(Add(U(WeightNorm(pt)),
               Mul(HyperC(scen),
                   U(Len(ScenarioX(scen))
                       * (Abs(pt.posSlack) + Abs(pt.negSlack))))),
           Add(svm_L1(scen), Mul(HyperC(scen), svr_loss(scen))))

Satisfies(scen, pt, constraint) ==
    CASE constraint = "tube" -> \A i \in Samples(scen) : EpsilonTube(scen, pt, i)
      [] constraint = "budget" -> RegressionBudget(scen, pt)

\* the points a regression problem accepts
RegressionFeasiblePoints(scen) ==
    {pt \in RegressionPoints :
        \A constraint \in BaseRegressionConstraints :
            Satisfies(scen, pt, constraint)}

\* ------------------------------------------------------------------------
\* One bound object and its problems
\* ------------------------------------------------------------------------
BoundClasses == {"LowerBound", "UpperBound", "RegressionBound"}

NewProblemInstance(bound, scen, di) ==
    [status |-> "built", bound |-> bound, scen |-> scen, di |-> di,
     first |-> NotSolved, second |-> NotSolved, problem |-> NotSolved]

estimatorVars ==
    <<params, random_state, X, pc, work, done, order, k, rangevector,
      shadowrangevector, omegas, biase, unmod_interval_, result, error,
      rs0, run, kind, prev>>

\* LowerBound.solve: the minimisation problem
SolveMinProblem ==
    /\ prob_instance.status = "built"
    /\ prob_instance.bound = "LowerBound"
    /\ \E sol \in Solutions("MinProblemClassification", prob_instance.scen,
                             prob_instance.di) :
          prob_instance' = [prob_instance EXCEPT !.status = "solved",
                                                 !.problem = sol]
    /\ UNCHANGED <<estimatorVars, gen>>

\* UpperBound.solve: first MaxProblem1 ...
SolveMaxProblem1 ==
    /\ prob_instance.status = "built"
    /\ prob_instance.bound = "UpperBound"
    /\ \E sol \in Solutions("MaxProblem1", prob_instance.scen,
                             prob_instance.di) :
          prob_instance' = [prob_instance EXCEPT !.status = "max1",
                                                 !.first = sol]
    /\ UNCHANGED <<estimatorVars, gen>>

\* ... then MaxProblem2
SolveMaxProblem2 ==
    /\ prob_instance.status = "max1"
    /\ \E sol \in Solutions("MaxProblem2", prob_instance.scen,
                             prob_instance.di) :
          prob_instance' = [prob_instance EXCEPT !.status = "max2",
                                                 !.second = sol]
    /\ UNCHANGED <<estimatorVars, gen>>

\* the better feasible optimum of the two maximisation problems
BetterOf(first, second) ==
    IF first.status # "optimal" THEN second
    ELSE IF second.status # "optimal" THEN first
    ELSE IF Less(first.value, second.value) THEN second
    ELSE first

\* ... and the bound keeps the problem with the better optimum
KeepBetter ==
    /\ prob_instance.status = "max2"
    /\ prob_instance' =
          [prob_instance EXCEPT !.status = "solved",
                                !.problem = BetterOf(prob_instance.first,
                                                     prob_instance.second)]
    /\ UNCHANGED <<estimatorVars, gen>>

\* a regression problem: the solver may stop at any point that meets the
\* constraints of the problem
SolveRegressionProblem ==
    /\ prob_instance.status = "built"
    /\ prob_instance.bound = "RegressionBound"
    /\ \E pt \in RegressionFeasiblePoints(prob_instance.scen) :
          prob_instance' =
              [prob_instance EXCEPT !.status = "solved",
                                    !.problem = [status |-> "feasible",
                                                 value |-> NaN,
                                                 point |-> pt]]
    /\ UNCHANGED <<estimatorVars, gen>>

NoData ==
    [d |-> 0, raw |-> RawOptima(0, 0), noise |-> "quiet", bad |-> "none",
     L1 |-> Zero]

InitBounds ==
    /\ EstimatorConstructed(NoPrev.params, NoData)
    /\ gen = NotInUse
    /\ \E bound \in BoundClasses, scen \in Scenarios, di \in 0 .. 1 :
          prob_instance = NewProblemInstance(bound, scen, di)

NextBounds ==
    \/ SolveMinProblem
    \/ SolveMaxProblem1
    \/ SolveMaxProblem2
    \/ KeepBetter
    \/ SolveRegressionProblem

SpecBounds == InitBounds /\ [][NextBounds]_vars

SolvedClassification ==
    /\ prob_instance.status = "solved"
    /\ prob_instance.bound \in {"LowerBound", "UpperBound"}

SolvedOptimal ==
    SolvedClassification /\ prob_instance.problem.status = "optimal"

\* C14: in the solution of every lower and upper bound problem the sum of
\* the slacks is at most max(0.011, loss * 1.001), loss being the loss of
\* the baseline model.
LossWithinBaseline ==
    SolvedOptimal =>
        LessEq(U(SlackSum(prob_instance.scen, prob_instance.problem.point)),
               MaxNum(<<11, 1000>>,
                      Mul(svm_loss(prob_instance.scen), <<1001, 1000>>)))

\* C15: in the solution of every lower and upper bound problem the L1 norm
\* of omega is at most 1.00001 times the L1 norm of the baseline weights.
NormWithinBaseline ==
    SolvedOptimal =>
        LessEq(U(WeightNorm(prob_instance.problem.point)),
               Mul(svm_L1(prob_instance.scen), <<100001, 100000>>))

\* C16: in the separable scenario and in the scenario with two mislabeled
\* samples every bound ends optimal with a value of at most
\* |coef[di]| + 0.1; in the separable scenario the lower bound of feature 0
\* is within 0.1 of 1 and the lower bound of feature 1 is not above it.
TestScenarioOptima ==
    (SolvedClassification
        /\ prob_instance.scen \in {"separable", "twoMiss"}) =>
        LET scen == prob_instance.scen
            di == prob_instance.di
            value == prob_instance.problem.value
        IN  /\ prob_instance.problem.status = "optimal"
            /\ LessEq(Sub(value, AbsNum(BaselineCoef(scen)[di + 1])),
                      <<1, 10>>)
            /\ (scen = "separable" /\ prob_instance.bound = "LowerBound") =>
                  IF di = 0
                  THEN LessEq(AbsNum(Sub(value, One)), <<1, 10>>)
                  ELSE \A sol \in Solutions("MinProblemClassification",
                                            scen, 0) :
                          LessEq(value, sol.value)

\* the points that meet the common constraints, whatever xp is
CommonFeasible(scen) ==
    {pt \in GridPoints : pt.xp = 0 /\ CommonConstraints(scen, pt)}

\* C17: the upper bound of feature di is the larger of the optima of
\* MaxProblem1 and MaxProblem2, and it is the maximum of |omega[di]| over
\* the points that meet the common constraints: no such point has a larger
\* |omega[di]|, so the big-M constraints cut none of them off.
UpperBoundIsMaximum ==
    (prob_instance.status = "solved"
        /\ prob_instance.bound = "UpperBound") =>
        LET scen == prob_instance.scen
            di == prob_instance.di
            value == prob_instance.problem.value
        IN  /\ value = MaxNum(prob_instance.first.value,
                              prob_instance.second.value)
            /\ \A pt \in CommonFeasible(scen) :
                  LessEq(U(Abs(pt.omega[di + 1])), value)
            /\ prob_instance.problem.status = "optimal" =>
                  \E pt \in CommonFeasible(scen) :
                      U(Abs(pt.omega[di + 1])) = value

\* C18: a regression problem accepts only points that keep every sample
\* inside the epsilon tube widened by the slack and that keep the L1 norm
\* plus C times the absolute slack sum within the baseline budget.
RegressionTubeAndBudget ==
    (prob_instance.status = "solved"
        /\ prob_instance.bound = "RegressionBound") =>
        LET scen == prob_instance.scen
            pt == prob_instance.problem.point
        IN  /\ \A i \in Samples(scen) : EpsilonTube(scen, pt, i)
            /\ RegressionBudget(scen, pt)

\* ------------------------------------------------------------------------
\* The data generators of genData.py.  Only the shapes of the arrays are
\* kept: an array is <<rows, columns>>, y is its length.
\* ------------------------------------------------------------------------
GenMax == 4

SampleCounts == {-1, 0, 1, 2, 3}

FlipValues == {Zero, <<1, 2>>, One}

\* partition=None, or a list
NoPartition == [given |-> FALSE, list |-> <<>>]
Given(list) == [given |-> TRUE, list |-> list]

Partitions ==
    {NoPartition} \cup
    {Given(list) : list \in {<<>>, <<2>>, <<3>>, <<2, 2>>, <<1, 2>>, <<0, 2>>}}

Generators == {"genClassificationData", "genRegressionData"}

GenParams ==
    [n_samples : SampleCounts, n_features : -1 .. GenMax,
     n_redundant : 0 .. GenMax, n_strel : 0 .. GenMax,
     n_repeated : 0 .. GenMax, flip_y : FlipValues, partition : Partitions]

Contains(list, v) == \E j \in 1 .. Len(list) : list[j] = v

\* _checkParam without its test of the sizes of the subsets
checkParamNoSubsetSize(p) ==
    IF ~(1 < p.n_samples) THEN "ValueError"
    ELSE IF ~(LessEq(Zero, p.flip_y) /\ Less(p.flip_y, One))
    THEN "ValueError"
    ELSE IF p.n_strel + p.n_redundant < 1 THEN "ValueError"
    ELSE IF p.n_strel = 0 /\ p.n_redundant < 2 THEN "ValueError"
    ELSE IF p.partition.given /\ SumInt(p.partition.list) # p.n_redundant
    THEN "ValueError"
    ELSE ""

\* _checkParam: the error it raises, "" when it returns
checkParam(p) ==
    IF ~(1 < p.n_samples) THEN "ValueError"
    ELSE IF ~(LessEq(Zero, p.flip_y) /\ Less(p.flip_y, One))
    THEN "ValueError"
    ELSE IF p.n_strel + p.n_redundant < 1 THEN "ValueError"
    ELSE IF p.n_strel = 0 /\ p.n_redundant < 2 THEN "ValueError"
    ELSE IF p.partition.given /\ SumInt(p.partition.list) # p.n_redundant
    THEN "ValueError"
    ELSE IF p.partition.given /\ (Contains(p.partition.list, 0)
                                   \/ Contains(p.partition.list, 1))
    THEN "ValueError"
    ELSE ""

\* the partition after "Find partitions which define the weakly relevant
\* subsets"
DefaultedPartition(p) ==
    IF ~p.partition.given /\ p.n_redundant > 0
    THEN Given(<<p.n_redundant>>)
    ELSE p.partition

part_size(p) ==
    IF ~p.partition.given /\ p.n_redundant > 0 THEN 1
    ELSE IF p.partition.given THEN Len(p.partition.list)
    ELSE 0

\* np.zeros((rows, columns)) raises ValueError for a negative dimension
ZerosFails(rows, columns) == rows < 0 \/ columns < 0

\* np.zeros((rows, columns)) with the dimensions exchanged
ZerosTransposed(rows, columns) == <<columns, rows>>

Zeros(rows, columns) == <<rows, columns>>

Min2(a, b) == IF a < b THEN a ELSE b

\* the number of columns of A[:, from:to] for 0 <= from <= to
SliceWidth(shape, from, to) == Min2(to, shape[2]) - Min2(from, shape[2])

\* target[...] = value works when the value has the width of the target
\* or a single column, which numpy broadcasts
Assignable(valueWidth, targetWidth) ==
    valueWidth = targetWidth \/ valueWidth = 1

NewCall(fn, p) ==
    [fn |-> fn, p |-> p, status |-> "called", error |-> "",
     partition |-> NoPartition, X_informative |-> <<0, 0>>,
     X_shape |-> <<0, 0>>, y_len |-> 0, i |-> 0, pi |-> 0, repeated |-> 0]

Raise(call, err) == [call EXCEPT !.status = "raised", !.error = err]

\* _checkParam(**locals())
GenCheckParam ==
    /\ gen.status = "called"
    /\ gen' = IF checkParam(gen.p) # ""
              THEN Raise(gen, checkParam(gen.p))
              ELSE [gen EXCEPT !.status = "checked"]
    /\ UNCHANGED <<estimatorVars, prob_instance>>

\* up to the call of _fillVariableSpace: genClassificationData allocates
\* X first, then both generators default the partition and draw the
\* informative features and the target
GenInformative ==
    /\ gen.status = "checked"
    /\ gen' =
          IF gen.fn = "genClassificationData"
             /\ ZerosFails(gen.p.n_samples, gen.p.n_features)
          THEN Raise(gen, "ValueError")
          ELSE [gen EXCEPT
                   !.status = "informative",
                   !.partition = DefaultedPartition(gen.p),
                   !.X_informative =
                       <<gen.p.n_samples, gen.p.n_strel + part_size(gen.p)>>,
                   !.y_len = gen.p.n_samples]
    /\ UNCHANGED <<estimatorVars, prob_instance>>

\* _fillVariableSpace up to the first loop: X = np.zeros(...) and
\* X[:, :n_strel] = X_informative[:, :n_strel]
FillStrel ==
    /\ gen.status = "informative"
    /\ gen' =
          IF ZerosFails(gen.p.n_samples, gen.p.n_features)
          THEN Raise(gen, "ValueError")
          ELSE LET shape == Zeros(gen.p.n_samples, gen.p.n_features)
               IN  IF ~Assignable(SliceWidth(gen.X_informative, 0,
                                             gen.p.n_strel),
                                  SliceWidth(shape, 0, gen.p.n_strel))
                   THEN Raise([gen EXCEPT !.X_shape = shape], "ValueError")
                   ELSE [gen EXCEPT !.status = "fill",
                                    !.X_shape = shape,
                                    !.i = gen.p.n_strel,
                                    !.pi = 0,
                                    !.repeated = 0]
    /\ UNCHANGED <<estimatorVars, prob_instance>>

\* one iteration of "for x in range(len(holdout.T))"
FillRedundant ==
    /\ gen.status = "fill"
    /\ gen.pi < gen.X_informative[2] - gen.p.n_strel
    /\ LET size == gen.partition.list[gen.pi + 1]
       IN  gen' =
             IF ~Assignable(size,
                            SliceWidth(gen.X_shape, gen.i, gen.i + size))
             THEN Raise(gen, "ValueError")
             ELSE [gen EXCEPT !.i = gen.i + size, !.pi = gen.pi + 1]
    /\ UNCHANGED <<estimatorVars, prob_instance>>

\* one iteration of "for x in range(n_repeated)": X[:, i] with i beyond
\* the last column raises IndexError
FillRepeated ==
    /\ gen.status = "fill"
    /\ gen.pi = gen.X_informative[2] - gen.p.n_strel
    /\ gen.repeated < gen.p.n_repeated
    /\ gen' = IF gen.i >= gen.X_shape[2]
              THEN Raise(gen, "IndexError")
              ELSE [gen EXCEPT !.i = gen.i + 1,
                               !.repeated = gen.repeated + 1]
    /\ UNCHANGED <<estimatorVars, prob_instance>>

\* one iteration of "for x in range(n_features - i)"
FillDummy ==
    /\ gen.status = "fill"
    /\ gen.pi = gen.X_informative[2] - gen.p.n_strel
    /\ gen.repeated = gen.p.n_repeated
    /\ gen.i < gen.X_shape[2]
    /\ gen' = [gen EXCEPT !.i = gen.i + 1]
    /\ UNCHANGED <<estimatorVars, prob_instance>>

\* the shape of A + B for two arrays of two dimensions that numpy can
\* broadcast: in each dimension the sizes are equal or one of them is 1
BroadcastDim(a, b) == IF a = 1 THEN b ELSE a
AddShape(A, B) == <<BroadcastDim(A[1], B[1]), BroadcastDim(A[2], B[2])>>

\* return X of _fillVariableSpace and the statements of the generator
\* after it: genClassificationData adds the noise matrix to X
GenReturn ==
    /\ gen.status = "fill"
    /\ gen.pi = gen.X_informative[2] - gen.p.n_strel
    /\ gen.repeated = gen.p.n_repeated
    /\ gen.i >= gen.X_shape[2]
    /\ gen' = [gen EXCEPT
                  !.status = "returned",
                  !.X_shape =
                      IF gen.fn = "genClassificationData"
                      THEN AddShape(gen.X_shape,
                                    <<gen.p.n_samples, gen.p.n_features>>)
                      ELSE gen.X_shape]
    /\ UNCHANGED <<estimatorVars, prob_instance>>

InitGen ==
    /\ EstimatorConstructed(NoPrev.params, NoData)
    /\ prob_instance = NotInUse
    /\ \E fn \in Generators, p \in GenParams :
          /\ fn = "genRegressionData" => p.flip_y = Zero
          /\ gen = NewCall(fn, p)

NextGen ==
    \/ GenCheckParam
    \/ GenInformative
    \/ FillStrel
    \/ FillRedundant
    \/ FillRepeated
    \/ FillDummy
    \/ GenReturn

SpecGen == InitGen /\ [][NextGen]_vars

GenEnded == gen.status \in {"returned", "raised"}

\* a parameter combination that asks for a data set that exists: at least
\* two samples, a flip ratio in [0, 1), an informative feature, redundant
\* subsets of at least two features that add up to n_redundant, and room
\* for all requested features
ValidParameters(p) ==
    /\ p.n_samples >= 2
    /\ p.n_features >= 1
    /\ LessEq(Zero, p.flip_y) /\ Less(p.flip_y, One)
    /\ p.n_strel + p.n_redundant >= 1
    /\ p.n_strel = 0 => p.n_redundant >= 2
    /\ p.partition.given =>
          /\ SumInt(p.partition.list) = p.n_redundant
          /\ \A j \in 1 .. Len(p.partition.list) : p.partition.list[j] >= 2
    /\ p.n_strel + p.n_redundant + p.n_repeated <= p.n_features

\* C19: for every valid parameter combination genClassificationData and
\* genRegressionData return, and they return X with n_samples rows and
\* n_features columns and y of length n_samples.
ShapeAsRequested ==
    (GenEnded /\ ValidParameters(gen.p)) =>
        /\ gen.status = "returned"
        /\ gen.X_shape = <<gen.p.n_samples, gen.p.n_features>>
        /\ gen.y_len = gen.p.n_samples

\* C19 witness: a generator has returned a data set with redundant,
\* repeated and dummy features
ShapeWitness ==
    /\ gen.status = "returned"
    /\ ValidParameters(gen.p)
    /\ gen.p.n_redundant >= 2
    /\ gen.p.n_repeated >= 1
    /\ gen.p.n_strel + gen.p.n_redundant + gen.p.n_repeated
          < gen.p.n_features
    /\ gen.p.n_samples # gen.p.n_features

\* C20: genClassificationData raises ValueError, and no other error, for
\* n_samples <= 0, for n_features <= 0 and whenever more strongly
\* relevant, redundant or repeated features are requested than n_features.
WrongValuesRaiseValueError ==
    (/\ GenEnded
     /\ gen.fn = "genClassificationData"
     /\ \/ gen.p.n_samples <= 0
        \/ gen.p.n_features <= 0
        \/ gen.p.n_strel > gen.p.n_features
        \/ gen.p.n_redundant > gen.p.n_features
        \/ gen.p.n_repeated > gen.p.n_features) =>
        /\ gen.status = "raised"
        /\ gen.error = "ValueError"

\* the parameter errors that the generators promise to reject
InvalidParameters(p) ==
    \/ ~(LessEq(Zero, p.flip_y) /\ Less(p.flip_y, One))
    \/ p.n_strel + p.n_redundant < 1
    \/ p.n_strel = 0 /\ p.n_redundant < 2
    \/ p.partition.given /\ SumInt(p.partition.list) # p.n_redundant
    \/ p.partition.given /\ \E j \in 1 .. Len(p.partition.list) :
                                p.partition.list[j] \in {0, 1}

\* C21: a call of a generator with a flip ratio outside [0, 1), without an
\* informative feature, without a strongly relevant feature and fewer than
\* two redundant ones, with a partition whose sum is not n_redundant or
\* with a subset of size 0 or 1 never gets past _checkParam: it raises
\* ValueError and nothing has been generated.
InvalidParametersRejected ==
    InvalidParameters(gen.p) =>
        /\ gen.status \in {"called", "raised"}
        /\ gen.status = "raised" => gen.error = "ValueError"
        /\ gen.X_informative = <<0, 0>>
        /\ gen.X_shape = <<0, 0>>
        /\ gen.y_len = 0

\* C21 witness: a call whose only fault is a subset of size 1, the last
\* test of _checkParam, has raised ValueError
RejectedWitness ==
    /\ gen.status = "raised"
    /\ gen.error = "ValueError"
    /\ gen.p.n_samples >= 2
    /\ LessEq(Zero, gen.p.flip_y) /\ Less(gen.p.flip_y, One)
    /\ gen.p.n_strel >= 1
    /\ gen.p.partition.given
    /\ SumInt(gen.p.partition.list) = gen.p.n_redundant
    /\ Contains(gen.p.partition.list, 1)

\* ------------------------------------------------------------------------
\* The final steps of _main_opt on data whose optima lie around the
\* rounding threshold
\* ------------------------------------------------------------------------
\* optima around the rounding threshold; an optimum lies between 0 and L1
\* up to the accuracy of the solver
RoundingProfiles(L1) ==
    IF L1 = Zero
    THEN << [lo |-> Zero, up |-> <<1, 100000>>, b |-> Zero],
            [lo |-> <<1, 100000>>, up |-> Zero, b |-> One] >>
    ELSE << [lo |-> <<3, 20000>>, up |-> L1, b |-> Zero],
            [lo |-> <<1, 100000>>, up |-> <<3, 20000>>, b |-> One] >>

RoundingL1Values == {Zero, <<1, 20>>, Two}

RoundingDataSets ==
    { [d |-> d,
       raw |-> [di \in Features(d) |->
                   RoundingProfiles(L1)[((di + shift) % 2) + 1]],
       noise |-> noise, bad |-> bad, L1 |-> L1] :
          d \in 1 .. MaxD, shift \in 0 .. 1,
          noise \in NoiseTables, bad \in {"none", "shadowlower"},
          L1 \in RoundingL1Values }

InitRounding ==
    \E p \in Params, data \in RoundingDataSets : Constructed(p, data)

SpecRounding == InitRounding /\ [][Next]_vars

\* the optimal value of the real task of slot s
RawValue(s) ==
    done[CHOOSE i \in 1 .. Len(done) :
            ~done[i].isShadow /\ Slot(done[i]) = s].value

\* the value of slot s after the three steps in the stated order
InOrder(s) ==
    LET raw == RawValue(s)
        diff == Sub(raw, result.shadow_interval[s])
        corrected == IF params.shadow_features
                     THEN IF Less(diff, Zero) THEN Zero ELSE diff
                     ELSE raw
        scaled == IF Less(Zero, X.L1) THEN Div(corrected, X.L1)
                  ELSE corrected
    IN  IF Less(AbsNum(scaled), Tolerance) THEN Zero ELSE scaled

\* C22: the returned matrix is the raw task values with the shadow
\* interval subtracted and negatives clamped to 0 (shadow_features only),
\* then divided by L1 (L1 > 0 only), then with every entry of absolute
\* value below 1e-4 set to 0; no returned entry v has 0 < |v| < 1e-4.
FinalStepsInOrder ==
    pc = "returned" =>
        \A s \in Slots(X.d) :
            /\ result.interval[s] = InOrder(s)
            /\ ~(/\ Less(Zero, AbsNum(result.interval[s]))
                 /\ Less(AbsNum(result.interval[s]), Tolerance))

\* C22 witness: a returned matrix in which the order of the steps shows:
\* an entry of 1e-4 or more that only the division by L1 brought below
\* 1e-4 is 0, next to an entry that is kept
RoundingWitness ==
    /\ pc = "returned"
    /\ params.shadow_features
    /\ Less(Zero, X.L1)
    /\ \E s \in Slots(X.d) :
          /\ LessEq(Tolerance, AbsNum(RawValue(s)))
          /\ result.shadow_interval[s] = Zero
          /\ result.interval[s] = Zero
    /\ \E s \in Slots(X.d) : result.interval[s] # Zero

\* ------------------------------------------------------------------------
\* The shadow mean
\* ------------------------------------------------------------------------
\* the optimal values of the shadow tasks of slot s, in submission order
ShadowValues(s) ==
    LET OfSlot(bound) == bound.isShadow /\ Slot(bound) = s
        tasks == SelectSeq(done, OfSlot)
    IN  [j \in 1 .. Len(tasks) |-> tasks[j].value]

\* the loop has taken every shadow task of the work list
ShadowCollected ==
    /\ pc \in {"loop", "returned"}
    /\ \A i \in 1 .. Len(done) :
          done[i].isShadow => \E j \in 1 .. k : order[j] = i

\* C23: once the loop has taken all shadow tasks, every slot of the shadow
\* array holds the mean of the optimal values of its shadow tasks: with
\* shadow_features and n_resampling >= 1 a slot has exactly n_resampling
\* shadow tasks and holds their sum divided by n_resampling, and the
\* returned shadow_interval is that array.
ShadowIntervalIsMean ==
    ShadowCollected =>
        \A s \in Slots(X.d) :
            LET values == ShadowValues(s)
                mean == IF values = <<>> THEN Zero
                        ELSE Div(SumNum(values), <<params.n_resampling, 1>>)
            IN  /\ (params.shadow_features /\ params.n_resampling >= 1) =>
                       Len(values) = params.n_resampling
                /\ shadowrangevector[s] = mean
                /\ pc = "returned" => result.shadow_interval[s] = mean

\* C23 witness: the loop has returned after taking two shadow results of
\* different value for one slot, in another order than submitted
MeanWitness ==
    /\ pc = "returned"
    /\ params.n_resampling = 2
    /\ order # IdentityOrder(Len(order))
    /\ \E s \in Slots(X.d) :
          /\ Len(ShadowValues(s)) = 2
          /\ ShadowValues(s)[1] # ShadowValues(s)[2]
          /\ result.shadow_interval[s] # Zero

\* ------------------------------------------------------------------------
\* Frame of the aggregation loop
\* ------------------------------------------------------------------------
\* the step is an iteration of "for finished_bound in done"
CollectStep == pc = "loop" /\ (k' # k \/ pc' = "raised")

\* array keeps every slot but s through the step
OnlySlot(s, before, after) ==
    \A t \in DOMAIN before : t # s => after[t] = before[t]

\* what an iteration may change for a shadow and for a real result
CollectFrame ==
    CollectStep =>
        LET finished_bound == done[order[k + 1]]
        IN  IF finished_bound.isShadow
            THEN /\ rangevector' = rangevector
                 /\ omegas' = omegas
                 /\ biase' = biase
            ELSE /\ shadowrangevector' = shadowrangevector
                 /\ OnlySlot(Slot(finished_bound), rangevector, rangevector')
                 /\ OnlySlot(Slot(finished_bound), omegas, omegas')
                 /\ OnlySlot(Slot(finished_bound), biase, biase')

\* the number of completed iterations that wrote the real slot s
RealWrites(s) ==
    Cardinality({j \in 1 .. k :
                    /\ ~done[order[j]].isShadow
                    /\ Slot(done[order[j]]) = s})

\* when _main_opt has ended, interval, omegas and bias of every real slot
\* have been written by exactly one iteration
RealSlotsWrittenOnce ==
    (Ended /\ WorkBuilt) => \A s \in Slots(X.d) : RealWrites(s) = 1

\* C24: collecting a shadow result changes only shadow_interval;
\* collecting a real result writes only its slot of interval, omegas and
\* bias and leaves shadow_interval and the other slots alone; each real
\* slot is written exactly once.
CollectWritesOwnSlotOnce ==
    [][CollectFrame]_vars /\ []RealSlotsWrittenOnce

\* ------------------------------------------------------------------------
\* The bound problems on the baseline model fitted by _initEstimator
\* ------------------------------------------------------------------------
\* 2 * C * sum_i slack[i] * Y[i] * x[i][j], where column 3 is the constant
\* 1 that liblinear appends for the intercept
HingeGradient(scen, j) ==
    Mul(Mul(Two, HyperC(scen)),
        SumNum([i \in Samples(scen) |->
                   Mul(BaselineSlack(scen, i),
                       <<ScenarioY(scen)[i]
                            * (IF j = 3 THEN 1 ELSE ScenarioX(scen)[i][j]),
                         1>>)]))

\* coef_ and intercept_ are the minimum of LinearSVC(penalty='l2',
\* loss="squared_hinge", dual=False) for C = _hyper_C, that is of
\* (|w|^2 + intercept^2) / 2 + C * sum of squared hinge slacks: the
\* gradient of this convex function is zero
LinearSVCFit(scen) ==
    /\ BaselineCoef(scen)[1] = HingeGradient(scen, 1)
    /\ BaselineCoef(scen)[2] = HingeGradient(scen, 2)
    /\ Neg(BaselineBias(scen)) = HingeGradient(scen, 3)

InitFitted ==
    /\ EstimatorConstructed(NoPrev.params, NoData)
    /\ gen = NotInUse
    /\ \E bound \in BoundClasses, scen \in FittedScenarios, di \in 0 .. 1 :
          /\ LinearSVCFit(scen)
          /\ prob_instance = NewProblemInstance(bound, scen, di)

SpecFitted == InitFitted /\ [][NextBounds]_vars

\* L1 + C * sum of the squared hinge slacks of the baseline model: the
\* left side of the budget constraint at the baseline model
BaselineCost(scen) ==
    Add(svm_L1(scen),
        Mul(HyperC(scen),
            SumNum([i \in Samples(scen) |->
                       Mul(BaselineSlack(scen, i), BaselineSlack(scen, i))])))

\* a is a whole number of grid units
OnGrid(a) == (a[1] * GridDen) % a[2] = 0

ToGrid(a) == (a[1] * GridDen) \div a[2]

\* omega = _svm_coef, b = _svm_bias and xp[di] = |omega[di]| as a grid
\* point; its slacks are then the hinge slacks of the baseline model
BaselinePoint(scen, di) ==
    [omega |-> <<ToGrid(BaselineCoef(scen)[1]),
                 ToGrid(BaselineCoef(scen)[2])>>,
     b |-> ToGrid(BaselineBias(scen)),
     xp |-> Abs(ToGrid(BaselineCoef(scen)[di + 1]))]

\* C25: the baseline weights, bias and hinge slacks that _initEstimator
\* computes meet the budget constraint of the classification bound
\* problems although the loss is the sum of the hinge slacks and the
\* constraint charges their squares, so the baseline model is a feasible
\* point and the lower bound of feature di has an optimum that is not
\* larger than |omega0[di]|.
BaselineIsFeasible ==
    SolvedClassification =>
        LET scen == prob_instance.scen
            di == prob_instance.di
        IN  /\ LessEq(BaselineCost(scen),
                      Add(svm_L1(scen), Mul(HyperC(scen), svm_loss(scen))))
            /\ (\A j \in 1 .. 2 : OnGrid(BaselineCoef(scen)[j])) =>
                  /\ CommonConstraints(scen, BaselinePoint(scen, di))
                  /\ prob_instance.bound = "LowerBound" =>
                        OwnConstraints("MinProblemClassification", scen, di,
                                       BaselinePoint(scen, di))
            /\ prob_instance.bound = "LowerBound" =>
                  /\ prob_instance.problem.status = "optimal"
                  /\ LessEq(prob_instance.problem.value,
                            AbsNum(BaselineCoef(scen)[di + 1]))

\* C25 witness: a lower bound has been solved on data that the baseline
\* model misclassifies in part (a hinge slack above 1, whose square is
\* larger than the slack)
BaselineWitness ==
    /\ prob_instance.status = "solved"
    /\ prob_instance.bound = "LowerBound"
    /\ prob_instance.di = 0
    /\ prob_instance.problem.status = "optimal"
    /\ \E i \in Samples(prob_instance.scen) :
          Less(One, BaselineSlack(prob_instance.scen, i))

\* the values a feasible shadow problem can have: xp[di] >= 0
ShadowOptima == {U(n) : n \in 0 .. GridDen}

\* the returned entry of a slot whose real task had the optimum value and
\* whose shadow tasks had the mean shadow
ReturnedEntry(value, shadow, shadow_features, L1) ==
    FinalInterval(<<value>>, <<shadow>>, shadow_features, L1)[1]

\* C26: with L1 > 0 and feasible tasks the optimum of a bound problem lies
\* in [0, L1] (the big-M constraints cap the upper bound at L1), the
\* shadow correction only lowers it, and so the returned entry lies in
\* [0, 1].
IntervalWithinUnit ==
    (SolvedOptimal /\ Less(Zero, svm_L1(prob_instance.scen))) =>
        LET L1 == svm_L1(prob_instance.scen)
            value == prob_instance.problem.value
        IN  /\ LessEq(Zero, value) /\ LessEq(value, L1)
            /\ \A shadow_features \in BOOLEAN, shadow \in ShadowOptima :
                  LET entry == ReturnedEntry(value, shadow,
                                             shadow_features, L1)
                  IN  /\ LessEq(Zero, entry) /\ LessEq(entry, One)
                      /\ LessEq(entry, Div(value, L1))

\* C26 witness: an upper bound has been solved that the big-M constraints
\* cap at L1: a point with a larger |omega[di]| meets the common
\* constraints
CappedWitness ==
    /\ prob_instance.status = "solved"
    /\ prob_instance.bound = "UpperBound"
    /\ prob_instance.problem.status = "optimal"
    /\ prob_instance.problem.value = svm_L1(prob_instance.scen)
    /\ \E pt \in CommonFeasible(prob_instance.scen) :
          Less(svm_L1(prob_instance.scen),
               U(Abs(pt.omega[prob_instance.di + 1])))

\* ------------------------------------------------------------------------
\* genOrdinalRegressionData.  The rows of X are kept by their number in
\* the regression data set, Y by its values.
\* ------------------------------------------------------------------------
\* the values of the regression target of a sample
TargetValues == {0, 1, 2}

OrdinalParams ==
    [n_samples : 1 .. GenMax, n_features : {2}, n_redundant : {0},
     n_strel : {0, 1}, n_repeated : {0}, flip_y : {Zero},
     partition : {NoPartition}, n_target_bins : 0 .. (GenMax + 1)]

\* seq[from:to] = v with 0 <= from <= to, in terms of the positions
\* 1 .. Len(seq), taken as positions from .. to
SetSliceFromOne(seq, from, to, v) ==
    [j \in 1 .. Len(seq) |-> IF from <= j /\ j <= to THEN v ELSE seq[j]]

\* seq[from:to] = v with 0 <= from <= to: the positions from + 1 .. to
SetSlice(seq, from, to, v) ==
    [j \in 1 .. Len(seq) |-> IF from < j /\ j <= to THEN v ELSE seq[j]]

\* np.argsort(Y): the permutations that put Y in ascending order
ArgSorts(Y) ==
    {perm \in [1 .. Len(Y) -> 1 .. Len(Y)] :
        /\ \A a, b \in 1 .. Len(Y) : a # b => perm[a] # perm[b]
        /\ \A a \in 1 .. (Len(Y) - 1) : Y[perm[a]] <= Y[perm[a + 1]]}

\* A[indices]
Take(A, indices) == [j \in 1 .. Len(indices) |-> A[indices[j]]]

NewOrdinalCall(p) ==
    [fn |-> "genOrdinalRegressionData", p |-> p, status |-> "called",
     error |-> "", Y_regression |-> <<>>, X |-> <<>>, Y |-> <<>>,
     bin_size |-> 0, rest |-> 0, i |-> 0]

\* _checkParam(**locals())
OrdCheckParam ==
    /\ gen.status = "called"
    /\ gen' = IF checkParam(gen.p) # ""
              THEN Raise(gen, checkParam(gen.p))
              ELSE [gen EXCEPT !.status = "checked"]
    /\ UNCHANGED <<estimatorVars, prob_instance>>

\* if not n_target_bins > 1: raise ValueError
OrdCheckBins ==
    /\ gen.status = "checked"
    /\ gen' = IF ~(gen.p.n_target_bins > 1)
              THEN Raise(gen, "ValueError")
              ELSE [gen EXCEPT !.status = "bins"]
    /\ UNCHANGED <<estimatorVars, prob_instance>>

\* genRegressionData(...) returns n_samples rows and their targets;
\* bin_size and rest
OrdRegression ==
    /\ gen.status = "bins"
    /\ \E target \in [1 .. gen.p.n_samples -> TargetValues] :
          gen' = [gen EXCEPT
                     !.status = "regression",
                     !.Y_regression = target,
                     !.X = IdentityOrder(gen.p.n_samples),
                     !.bin_size = gen.p.n_samples \div gen.p.n_target_bins,
                     !.rest = gen.p.n_samples
                                - (gen.p.n_samples \div gen.p.n_target_bins)
                                    * gen.p.n_target_bins]
    /\ UNCHANGED <<estimatorVars, prob_instance>>

\* sort_indices = np.argsort(Y_regression); X = X_regression[sort_indices];
\* Y = Y_regression[sort_indices]
OrdSort ==
    /\ gen.status = "regression"
    /\ \E sort_indices \in ArgSorts(gen.Y_regression) :
          gen' = [gen EXCEPT !.status = "assign",
                             !.X = Take(gen.X, sort_indices),
                             !.Y = Take(gen.Y_regression, sort_indices),
                             !.i = 0]
    /\ UNCHANGED <<estimatorVars, prob_instance>>

\* one iteration of "for i in range(n_target_bins)"
OrdAssign ==
    /\ gen.status = "assign"
    /\ gen.i < gen.p.n_target_bins
    /\ gen' = [gen EXCEPT
                  !.Y = SetSlice(gen.Y, gen.bin_size * gen.i,
                                 gen.bin_size * (gen.i + 1), gen.i),
                  !.i = gen.i + 1]
    /\ UNCHANGED <<estimatorVars, prob_instance>>

\* if rest > 0: Y[-rest:] = n_target_bins - 1
OrdRest ==
    /\ gen.status = "assign"
    /\ gen.i = gen.p.n_target_bins
    /\ gen' = [gen EXCEPT
                  !.status = "binned",
                  !.Y = IF gen.rest > 0
                        THEN SetSlice(gen.Y, Len(gen.Y) - gen.rest,
                                      Len(gen.Y), gen.p.n_target_bins - 1)
                        ELSE gen.Y]
    /\ UNCHANGED <<estimatorVars, prob_instance>>

\* X, Y = shuffle(X, Y, random_state=random_state), the noise added to X
\* and the return
OrdShuffle ==
    /\ gen.status = "binned"
    /\ \E perm \in Orders(Len(gen.Y)) :
          gen' = [gen EXCEPT !.status = "returned",
                             !.X = Take(gen.X, perm),
                             !.Y = Take(gen.Y, perm)]
    /\ UNCHANGED <<estimatorVars, prob_instance>>

InitOrdinal ==
    /\ EstimatorConstructed(NoPrev.params, NoData)
    /\ prob_instance = NotInUse
    /\ \E p \in OrdinalParams : gen = NewOrdinalCall(p)

NextOrdinal ==
    \/ OrdCheckParam
    \/ OrdCheckBins
    \/ OrdRegression
    \/ OrdSort
    \/ OrdAssign
    \/ OrdRest
    \/ OrdShuffle

SpecOrdinal == InitOrdinal /\ [][NextOrdinal]_vars

\* the number of returned samples of class c
ClassSize(c) == Cardinality({j \in 1 .. Len(gen.Y) : gen.Y[j] = c})

\* C27: genOrdinalRegressionData raises ValueError for n_target_bins <= 1;
\* otherwise every returned sample has a class in 0 .. n_target_bins - 1,
\* a sample with a smaller regression target never has a larger class,
\* every class but the last has floor(n_samples / n_target_bins) samples
\* and the last class has that number plus the remainder.
OrdinalBins ==
    LET n == gen.p.n_samples
        bins == gen.p.n_target_bins
    IN  /\ bins <= 1 =>
              /\ gen.status \in {"called", "checked", "raised"}
              /\ gen.status = "raised" => gen.error = "ValueError"
        /\ gen.status = "returned" =>
              /\ Len(gen.Y) = n /\ Len(gen.X) = n
              /\ \A row \in 1 .. n : \E j \in 1 .. n : gen.X[j] = row
              /\ \A j \in 1 .. n : gen.Y[j] \in 0 .. (bins - 1)
              /\ \A a, b \in 1 .. n :
                    gen.Y_regression[gen.X[a]] < gen.Y_regression[gen.X[b]]
                        => gen.Y[a] <= gen.Y[b]
              /\ \A c \in 0 .. (bins - 2) : ClassSize(c) = n \div bins
              /\ ClassSize(bins - 1) = (n \div bins) + (n % bins)

\* C27 witness: a data set with full bins and a remainder has been
\* returned in another order than the regression data
OrdinalWitness ==
    /\ gen.status = "returned"
    /\ gen.p.n_samples \div gen.p.n_target_bins >= 1
    /\ gen.p.n_samples % gen.p.n_target_bins >= 1
    /\ gen.p.n_target_bins >= 3
    /\ gen.X # IdentityOrder(gen.p.n_samples)
    /\ \E a, b \in 1 .. gen.p.n_samples :
          gen.Y_regression[a] # gen.Y_regression[b]

\* ------------------------------------------------------------------------
\* The FRI factory of fri/__init__.py.  A string is the sequence of its
\* characters.
\* ------------------------------------------------------------------------
UpperCase ==
    <<"A", "B", "C", "D", "E", "F", "G", "H", "I", "J", "K", "L", "M", "N",
      "O", "P", "Q", "R", "S", "T", "U", "V", "W", "X", "Y", "Z">>

LowerCase ==
    <<"a", "b", "c", "d", "e", "f", "g", "h", "i", "j", "k", "l", "m", "n",
      "o", "p", "q", "r", "s", "t", "u", "v", "w", "x", "y", "z">>

\* str.lower() for a single character
LowerChar(c) ==
    IF \E j \in 1 .. Len(UpperCase) : UpperCase[j] = c
    THEN LowerCase[CHOOSE j \in 1 .. Len(UpperCase) : UpperCase[j] = c]
    ELSE c

\* str.lower()
Lower(str) == [j \in 1 .. Len(str) |-> LowerChar(str[j])]

\* class ProblemType(Enum): the members with their name and value
ProblemType ==
    {[name |->
          <<"C", "L", "A", "S", "S", "I", "F", "I", "C", "A", "T", "I",
            "O", "N">>,
      value |-> "Classification"],
     [name |->
          <<"R", "E", "G", "R", "E", "S", "S", "I", "O", "N">>,
      value |-> "Regression"],
     [name |->
          <<"O", "R", "D", "I", "N", "A", "L", "R", "E", "G", "R", "E",
            "S", "S", "I", "O", "N">>,
      value |-> "OrdinalRegression"],
     [name |->
          <<"L", "U", "P", "I", "_", "C", "L", "A", "S", "S", "I", "F",
            "I", "C", "A", "T", "I", "O", "N">>,
      value |-> "LUPI_Classification"],
     [name |->
          <<"L", "U", "P", "I", "_", "R", "E", "G", "R", "E", "S", "S",
            "I", "O", "N">>,
      value |-> "LUPI_Regression"]}

\* the string literals of the if-chain of FRI
Str_classification ==
    <<"c", "l", "a", "s", "s", "i", "f", "i", "c", "a", "t", "i", "o",
      "n">>
Str_class ==
    <<"c", "l", "a", "s", "s">>
Str_regression ==
    <<"r", "e", "g", "r", "e", "s", "s", "i", "o", "n">>
Str_reg ==
    <<"r", "e", "g">>
Str_ordinalregression ==
    <<"o", "r", "d", "i", "n", "a", "l", "r", "e", "g", "r", "e", "s", "s",
      "i", "o", "n">>
Str_ordreg ==
    <<"o", "r", "d", "r", "e", "g">>
Str_lupi_classification ==
    <<"l", "u", "p", "i", "_", "c", "l", "a", "s", "s", "i", "f", "i", "c",
      "a", "t", "i", "o", "n">>
Str_lupi_class ==
    <<"l", "u", "p", "i", "_", "c", "l", "a", "s", "s">>

\* strings that the if-chain does not mention
OtherStrings ==
    {<<"l", "u", "p", "i", "_", "r", "e", "g", "r", "e", "s", "s", "i",
       "o", "n">>,
     <<"l", "u", "p", "i", "_", "r", "e", "g">>,
     <<"C", "l", "a", "s", "s", "i", "f", "i", "c", "a", "t", "i", "o",
       "n">>,
     <<"R", "E", "G", "R", "E", "S", "S", "I", "O", "N">>,
     <<"s", "v", "m">>,
     <<>>}

ProblemStrings ==
    {Str_classification,
     Str_class,
     Str_regression,
     Str_reg,
     Str_ordinalregression,
     Str_ordreg,
     Str_lupi_classification,
     Str_lupi_class} \cup OtherStrings

\* what a caller passes as problem: a member of ProblemType or a string
NoMember == [name |-> <<>>, value |-> ""]

Problems ==
    {[isMember |-> TRUE, member |-> pt, str |-> <<>>] : pt \in ProblemType}
    \cup {[isMember |-> FALSE, member |-> NoMember, str |-> str] :
              str \in ProblemStrings}

\* random_state=None or a seed
RandomStates ==
    {[isNone |-> TRUE, seed |-> 0]}
    \cup {[isNone |-> FALSE, seed |-> seed] : seed \in Seeds}

FactoryCalls ==
    [problem : Problems, random_state : RandomStates,
     n_jobs : {1, -1}, verbose : {0, 1}]

NoType == "unbound"

\* the value None as the result of FRI
None ==
    [isNone |-> TRUE, problemtype |-> NoType,
     random_state |-> [isNone |-> TRUE, seed |-> 0], n_jobs |-> 0,
     verbose |-> 0]

\* lines 45-56: the model class bound to problemtype, NoType when the
\* else branch is taken
problemtype(problem) ==
    IF problem.isMember THEN problem.member.value
    ELSE IF problem.str = Str_classification \/ problem.str = Str_class
    THEN "Classification"
    ELSE IF problem.str = Str_regression \/ problem.str = Str_reg
    THEN "Regression"
    ELSE IF problem.str = Str_ordinalregression \/ problem.str = Str_ordreg
    THEN "OrdinalRegression"
    ELSE IF problem.str = Str_lupi_classification \/ problem.str = Str_lupi_class
    THEN "LUPI_Classification"
    ELSE NoType

\* names = [enum.name.lower() for enum in ProblemType]
names == {Lower(pt.name) : pt \in ProblemType}

NewFactoryCall(c) ==
    [fn |-> "FRI", c |-> c, status |-> "called", problemtype |-> NoType,
     printed |-> {}, result |-> None]

\* the if-chain: problemtype is bound, or the names are printed and FRI
\* returns None
FactoryDispatch ==
    /\ gen.status = "called"
    /\ gen' = IF problemtype(gen.c.problem) = NoType
              THEN [gen EXCEPT !.status = "returned", !.printed = names,
                               !.result = None]
              ELSE [gen EXCEPT !.status = "dispatched",
                               !.problemtype = problemtype(gen.c.problem)]
    /\ UNCHANGED <<estimatorVars, prob_instance>>

\* return FRIBase(problemtype, random_state=random_state, n_jobs=n_jobs,
\* verbose=verbose, ...)
FactoryBuild ==
    /\ gen.status = "dispatched"
    /\ gen' = [gen EXCEPT
                  !.status = "returned",
                  !.result = [isNone |-> FALSE,
                              problemtype |-> gen.problemtype,
                              random_state |-> gen.c.random_state,
                              n_jobs |-> gen.c.n_jobs,
                              verbose |-> gen.c.verbose]]
    /\ UNCHANGED <<estimatorVars, prob_instance>>

InitFactory ==
    /\ EstimatorConstructed(NoPrev.params, NoData)
    /\ prob_instance = NotInUse
    /\ \E c \in FactoryCalls : gen = NewFactoryCall(c)

NextFactory == FactoryDispatch \/ FactoryBuild

SpecFactory == InitFactory /\ [][NextFactory]_vars

\* C28: FRI builds the model of a ProblemType member for the lower-cased
\* name of every member, and it returns None only for a string that is
\* the lower-cased name of no member.
FactoryAcceptsMemberNames ==
    (gen.status = "returned" /\ ~gen.c.problem.isMember) =>
        /\ \A pt \in ProblemType :
              gen.c.problem.str = Lower(pt.name) =>
                  /\ gen.result # None
                  /\ gen.result.problemtype = pt.value
        /\ gen.result = None =>
              \A pt \in ProblemType : gen.c.problem.str # Lower(pt.name)

====
